---- MODULE Spec2Model ----
(***************************************************************************)
(* GMfold: minimum free energy folding of a single-stranded sequence.      *)
(* The model follows src/src/GMfold.py: gmfold = candidate index, _cache   *)
(* (the fill, one candidate pair per step, calling _e), the exterior open  *)
(* multi-branch step, gm_traceback.                                        *)
(*                                                                         *)
(* Energies are integers in tenths of kcal/mol, so round(x, 1) is exact.   *)
(* math.inf is Inf, -math.inf is -Inf, a float NaN is NaN.                 *)
(* Positions are 0-based as in the source; seq is a TLA+ sequence, so the  *)
(* base at position p is seq[p + 1].  A base pair (i, j) is <<i, j>>.      *)
(***************************************************************************)
EXTENDS Integers, Sequences, FiniteSets, TLC

VARIABLES seq, l_fix, bps, pc, todo, e_cache, non_branches, min_struct,
          min_ene, e, root, result, last

vars == <<seq, l_fix, bps, pc, todo, e_cache, non_branches, min_struct,
          min_ene, e, root, result, last>>

(***************************************************************************)
(* Bounds of the model and constants of the program.                       *)
(***************************************************************************)
MaxPairs == 3
MaxFix == 2

Inf == 1000000
NaN == 2000000
IsolatedPenalty == 50000
SmallHairpin == 4
n_branches == 4

None == <<>>
Unbound == [e |-> NaN, desc |-> "UNBOUND", ij |-> <<>>]

\* The sequences folded: empty; too short to pair; one pair whose inner
\* neighbours do not match; a stem of three pairs; two hairpins side by
\* side; two hairpins inside a closing pair; a helix with bulges and an
\* interior loop.
Seqs ==
  { <<>>,
    <<"G", "A", "C">>,
    <<"G", "A", "A", "A", "A", "A", "C">>,
    <<"G", "A", "T", "G", "G", "G", "G", "A", "T", "C">>,
    <<"G", "C", "A", "G", "C", "A", "T", "G", "A", "T">>,
    <<"A", "G", "T", "C", "A", "C", "G", "T", "A", "A", "C", "T">>,
    <<"G", "A", "A", "C", "T", "G", "G", "A", "G", "A", "T", "C">> }

\* Values the energy model returns (tenths of kcal/mol).
HairpinE == {-15, -10, 20}
LoopE == {-10, 5}
MultiE == {-5, 10}
OpenE == {0, 5}

(***************************************************************************)
(* Floats with infinities.                                                 *)
(***************************************************************************)
AddE(a, b) ==
  IF a = NaN \/ b = NaN THEN NaN
  ELSE IF a = Inf THEN (IF b = -Inf THEN NaN ELSE Inf)
  ELSE IF a = -Inf THEN (IF b = Inf THEN NaN ELSE -Inf)
  ELSE IF b = Inf \/ b = -Inf THEN b
  ELSE a + b

NegE(a) == IF a = NaN THEN NaN ELSE -a

SubE(a, b) == AddE(a, NegE(b))

LtE(a, b) == a # NaN /\ b # NaN /\ a < b

RECURSIVE SumE(_)
SumE(es) == IF es = <<>> THEN 0 ELSE AddE(Head(es), SumE(Tail(es)))

(***************************************************************************)
(* Struct and the two sentinels.                                           *)
(***************************************************************************)
Struct(en, desc, ij) == [e |-> en, desc |-> desc, ij |-> ij]

STRUCT_DEFAULT == Struct(-Inf, "", <<>>)
STRUCT_NULL == Struct(Inf, "", <<>>)

StructEq(a, b) == a.e = b.e /\ a.ij = b.ij

StructBool(s) == s.e # Inf /\ s.e # -Inf

with_ij(s, ij) == Struct(s.e, s.desc, ij)

(***************************************************************************)
(* The sequence and the energy tables' complement lookup.                  *)
(***************************************************************************)
n == Len(seq)

COMPLEMENT(b) ==
  CASE b = "A" -> "T"
    [] b = "T" -> "A"
    [] b = "G" -> "C"
    [] b = "C" -> "G"

CompIn(s, a, b) == COMPLEMENT(s[a + 1]) = s[b + 1]

Comp(a, b) == CompIn(seq, a, b)

\* pair in emap.NN: the nearest-neighbour table lists the stacks of two
\* complementary pairs.
InNN(a, a1, b, b1) == Comp(a, b) /\ Comp(a1, b1)

(***************************************************************************)
(* The candidate pair index (Aptamer_match.fit_fold): bps, S, D.           *)
(***************************************************************************)
Span(p) == p[2] - p[1]

CompPairs(s) ==
  { p \in (0 .. Len(s) - 1) \X (0 .. Len(s) - 1) :
      p[2] - p[1] >= SmallHairpin /\ CompIn(s, p[1], p[2]) }

StemPairs(s, k) ==
  { p \in CompPairs(s) : p[1] < k /\ p[1] + p[2] = Len(s) - 1 }

Candidates(s, k) ==
  { c \in SUBSET CompPairs(s) :
      Cardinality(c) <= MaxPairs /\ StemPairs(s, k) \subseteq c }

S(p) == { q \in bps : p[1] < q[1] /\ q[2] < p[2] }

D(d) == { p \in bps : Span(p) = d }

\* The pairs the fill may take next: the keys of D in ascending order,
\* the pairs of one key in any order.
NextPairs ==
  IF todo = {} THEN {}
  ELSE LET keys == { Span(p) : p \in todo }
           d == CHOOSE k \in keys : \A m \in keys : k <= m
       IN  D(d) \cap todo

\* Every enumeration order of a finite set.
SeqsOf(T) ==
  { f \in [1 .. Cardinality(T) -> T] :
      \A a, b \in 1 .. Cardinality(T) : a # b => f[a] # f[b] }

(***************************************************************************)
(* The energy cache.  A cell never written reads as STRUCT_DEFAULT.        *)
(***************************************************************************)
CellIn(cache, p) == IF p \in DOMAIN cache THEN cache[p] ELSE STRUCT_DEFAULT

Cell(p) == CellIn(e_cache, p)

Put(cache, p, s) ==
  [q \in (DOMAIN cache) \cup {p} |-> IF q = p THEN s ELSE cache[q]]

Filled(p) == ~StructEq(Cell(p), STRUCT_DEFAULT)

\* What the last step did: the pair, the path taken through the code, the
\* values the energy model returned, the cells read (and those read while
\* unfilled), and for the exterior step the best energy before it and the
\* open multi-branch energy of every combination.
NoStep == [bp |-> None, path |-> "", hp |-> 0, lp |-> <<>>, pen |-> 0,
           reads |-> {}, unfilled |-> {}, best |-> 0, open |-> <<>>]

Init ==
  /\ seq \in Seqs
  /\ l_fix \in 0 .. MaxFix
  /\ bps \in Candidates(seq, l_fix)
  /\ pc = "fill"
  /\ todo = bps
  /\ e_cache = <<>>
  /\ non_branches = {}
  /\ min_struct = None
  /\ min_ene = Inf
  /\ e = Unbound
  /\ root = None
  /\ result = <<>>
  /\ last = NoStep

(***************************************************************************)
(* _e: the resolution of one candidate pair.                               *)
(***************************************************************************)
isolated_outer(i, j) ==
  IF i # 0 /\ j < n - 1 THEN ~Comp(i - 1, j + 1) ELSE TRUE

isolated_inner(i, j) == ~Comp(i + 1, j - 1)

\* The label of the link (i, j) -> (i1, j1), "" when the geometry is skipped.
LinkDesc(i, j, i1, j1) ==
  LET pair_inner == InNN(i, i + 1, j, j - 1) \/ InNN(i1 - 1, i1, j1 + 1, j1)
      stack == i1 = i + 1 /\ j1 = j - 1
      bulge_left == i1 > i + 1
      bulge_right == j1 < j - 1
  IN  IF stack
        THEN IF (i > 0 /\ j = n - 1) \/ (i = 0 /\ j < n - 1)
               THEN "STACK_DE" ELSE "STACK"
      ELSE IF bulge_left /\ bulge_right /\ ~pair_inner
        THEN IF i1 - i = 2 /\ j - j1 = 2 THEN "STACK" ELSE "INTERIOR_LOOP"
      ELSE IF bulge_left /\ ~bulge_right THEN "BULGE"
      ELSE IF ~bulge_left /\ bulge_right THEN "BULGE"
      ELSE ""

\* The nested candidates whose cell the E2 loop reads.
Linked(i, j) ==
  { bp \in S(<<i, j>>) :
      Comp(bp[1], bp[2]) /\ LinkDesc(i, j, bp[1], bp[2]) # "" }

\* The E2 loop recording the pair (i, j) itself as the child of its cell.
RECURSIVE E2LoopSelf(_, _, _, _, _)
E2LoopSelf(i, j, ord, lp, e2) ==
  IF ord = <<>> THEN e2
  ELSE
    LET bp == Head(ord)
        e2_test == IF bp \in Linked(i, j)
                     THEN AddE(lp[bp], Cell(bp).e) ELSE Inf
        e2_test_type == LinkDesc(i, j, bp[1], bp[2])
        next == IF bp \in Linked(i, j) /\ e2_test # -Inf /\ LtE(e2_test, e2.e)
                  THEN Struct(e2_test, e2_test_type, <<(<<i, j>>)>>)
                  ELSE e2
    IN  E2LoopSelf(i, j, Tail(ord), lp, next)

\* The E2 loop over S[key] in the order ord; lp[bp] is the loop energy
\* (_stack, _bulge, _internal_loop) of the link to bp.
RECURSIVE E2Loop(_, _, _, _, _)
E2Loop(i, j, ord, lp, e2) ==
  IF ord = <<>> THEN e2
  ELSE
    LET bp == Head(ord)
        e2_test == IF bp \in Linked(i, j)
                     THEN AddE(lp[bp], Cell(bp).e) ELSE Inf
        e2_test_type == LinkDesc(i, j, bp[1], bp[2])
        next == IF bp \in Linked(i, j) /\ e2_test # -Inf /\ LtE(e2_test, e2.e)
                  THEN Struct(e2_test, e2_test_type, <<bp>>)
                  ELSE e2
    IN  E2Loop(i, j, Tail(ord), lp, next)

NonOverlap(p, q) == p[2] < q[1] \/ q[2] < p[1]

all_combinations(branches, r1, r2) ==
  { c \in SUBSET branches :
      /\ Cardinality(c) >= r1
      /\ Cardinality(c) <= r2
      /\ \A p, q \in c : p # q => NonOverlap(p, q) }

\* The members of a combination, left to right.
RECURSIVE SortPairs(_)
SortPairs(c) ==
  IF c = {} THEN <<>>
  ELSE LET p == CHOOSE x \in c : \A y \in c : x[1] <= y[1]
       IN  <<p>> \o SortPairs(c \ {p})

RECURSIVE CachedSum(_, _)
CachedSum(cache, ps) ==
  IF ps = <<>> THEN 0
  ELSE AddE(CellIn(cache, Head(ps)).e, CachedSum(cache, Tail(ps)))

gm_multi_branch(cache, combo, pen) ==
  Struct(AddE(pen, CachedSum(cache, SortPairs(combo))), "MULTI_BRANCH",
         SortPairs(combo))

open_ending_branch(cache, combo, pen) ==
  Struct(AddE(pen, CachedSum(cache, SortPairs(combo))),
         "OPEN_ENDING_MULTI_BRANCH", SortPairs(combo))

\* The E3 loop over the combinations in the order ord.
RECURSIVE E3Loop(_, _, _)
E3Loop(ord, pen, e3) ==
  IF ord = <<>> THEN e3
  ELSE
    LET e3_test == gm_multi_branch(e_cache, Head(ord), pen)
        next == IF StructBool(e3_test) /\ LtE(e3_test.e, e3.e)
                  THEN e3_test ELSE e3
    IN  E3Loop(Tail(ord), pen, next)

\* The branch pool of (i, j) and the combinations the E3 loop enumerates.
Branches(i, j) ==
  IF ~isolated_outer(i, j) \/ i = 0 \/ j = n - 1
    THEN S(<<i, j>>) \ non_branches ELSE {}

Combos(i, j) ==
  IF Cardinality(Branches(i, j)) >= 2
    THEN all_combinations(Branches(i, j), 2, n_branches) ELSE {}

\* What gm_multi_branch adds to the branches' energies for the closing
\* pair (i, j); it is asked only when there is a combination.
MultiPen(i, j) == IF Combos(i, j) = {} THEN {0} ELSE MultiE

RECURSIVE MinLoop(_, _)
MinLoop(structs, s) ==
  IF structs = <<>> THEN s
  ELSE LET struct == Head(structs)
       IN  MinLoop(Tail(structs),
                   IF struct.e # -Inf /\ LtE(struct.e, s.e) THEN struct ELSE s)

\* _min_struct that leaves out the last struct it is given.
min_struct_without_last(structs) ==
  MinLoop(SubSeq(structs, 1, Len(structs) - 1), STRUCT_NULL)

_min_struct(structs) == MinLoop(structs, STRUCT_NULL)

\* if e.e < min_ene: min_struct = bp; min_ene = e.e   (in _cache)
UpdateMin(bp, s) ==
  IF LtE(s.e, min_ene)
    THEN min_struct' = bp /\ min_ene' = s.e
    ELSE UNCHANGED <<min_struct, min_ene>>

\* The pairs _cache force-writes when l_fix > 0.
fixed_bp == { <<k, n - 1 - k>> : k \in 0 .. l_fix - 2 }

Generic(bp) == l_fix = 0 \/ bp \notin fixed_bp

UnionOf(sets) == UNION sets

\* _e, lines 232-239: the isolated pair gets the penalty and _e returns the
\* bare Struct; the caller's "e, non_branches = _e(...)" then fails.
FillIsolated ==
  /\ pc = "fill"
  /\ \E bp \in NextPairs :
       /\ Generic(bp)
       /\ ~Filled(bp)
       /\ isolated_outer(bp[1], bp[2]) /\ isolated_inner(bp[1], bp[2])
       /\ e_cache' = Put(e_cache, bp, Struct(IsolatedPenalty, "", <<>>))
       /\ todo' = todo \ {bp}
       /\ last' = [NoStep EXCEPT !.bp = bp, !.path = "isolated"]
  /\ pc' = "error"
  /\ UNCHANGED <<seq, l_fix, bps, non_branches, min_struct, min_ene, e,
                 root, result>>

\* _e, lines 241-246: the hairpin of span 4 is stored and returned at once.
FillSmallHairpin ==
  /\ pc = "fill"
  /\ \E bp \in NextPairs, hp \in HairpinE :
       LET e1 == Struct(hp, "HAIRPIN", <<>>) IN
       /\ Generic(bp)
       /\ ~Filled(bp)
       /\ ~(isolated_outer(bp[1], bp[2]) /\ isolated_inner(bp[1], bp[2]))
       /\ Span(bp) = SmallHairpin
       /\ e_cache' = Put(e_cache, bp, e1)
       /\ e' = e1
       /\ UpdateMin(bp, e1)
       /\ todo' = todo \ {bp}
       /\ last' = [NoStep EXCEPT !.bp = bp, !.path = "small", !.hp = hp]
  /\ UNCHANGED <<seq, l_fix, bps, pc, non_branches, root, result>>

\* _e, lines 248-328: hairpin, best link, best multi-branch, the minimum.
FillGeneral ==
  /\ pc = "fill"
  /\ \E bp \in NextPairs, hp \in HairpinE :
     \E lp \in [Linked(bp[1], bp[2]) -> LoopE], ordS \in SeqsOf(S(bp)),
        pen \in MultiPen(bp[1], bp[2]),
        ordC \in SeqsOf(Combos(bp[1], bp[2])) :
       LET i == bp[1]
           j == bp[2]
           e1 == Struct(hp, "HAIRPIN", <<>>)
           e2 == E2Loop(i, j, ordS, lp, Struct(Inf, "", <<>>))
           e3 == E3Loop(ordC, pen, STRUCT_NULL)
           en == _min_struct(<<e1, e2, e3>>)
           reads == Linked(i, j) \cup UnionOf(Combos(i, j))
       IN
       /\ Generic(bp)
       /\ ~Filled(bp)
       /\ ~(isolated_outer(i, j) /\ isolated_inner(i, j))
       /\ Span(bp) # SmallHairpin
       /\ non_branches' =
            IF en.e > 0 \/ StructEq(en, e3) \/ StructEq(en, e1)
              THEN non_branches \cup {bp} ELSE non_branches
       /\ e_cache' = Put(e_cache, bp, en)
       /\ e' = en
       /\ UpdateMin(bp, en)
       /\ todo' = todo \ {bp}
       /\ last' = [NoStep EXCEPT !.bp = bp, !.path = "general", !.hp = hp,
                                 !.lp = lp, !.pen = pen, !.reads = reads,
                                 !.unfilled = { q \in reads : ~Filled(q) }]
  /\ UNCHANGED <<seq, l_fix, bps, pc, root, result>>

\* _cache, lines 168-175: a stem pair whose inner pair does not match is
\* passed over.
FillFixedSkip ==
  /\ pc = "fill"
  /\ l_fix > 0
  /\ \E bp \in NextPairs :
       /\ bp \in fixed_bp
       /\ ~Comp(bp[1] + 1, bp[2] - 1)
       /\ todo' = todo \ {bp}
       /\ last' = [NoStep EXCEPT !.bp = bp, !.path = "skip"]
  /\ UNCHANGED <<seq, l_fix, bps, pc, e_cache, non_branches, min_struct,
                 min_ene, e, root, result>>

\* _cache, lines 168-193: a stem pair is written as a stack on the next
\* inward pair; the comparison that follows reads the e of an earlier pair.
FillFixedWrite ==
  /\ pc = "fill"
  /\ l_fix > 0
  /\ \E bp \in NextPairs, st \in LoopE :
       LET i == bp[1]
           j == bp[2]
           i1 == i + 1
           j1 == j - 1
           e2_test == AddE(st, Cell(<<i1, j1>>).e)
           e2_test_type ==
             IF (i > 0 /\ j = n - 1) \/ (i = 0 /\ j < n - 1)
               THEN "STACK_DE" ELSE "STACK"
           e2 == IF e2_test # -Inf /\ LtE(e2_test, Inf)
                   THEN Struct(e2_test, e2_test_type, <<(<<i1, j1>>)>>)
                   ELSE Struct(Inf, "", <<>>)
       IN
       /\ bp \in fixed_bp
       /\ Comp(i1, j1)
       /\ e_cache' = Put(e_cache, bp, e2)
       /\ todo' = todo \ {bp}
       /\ last' = [NoStep EXCEPT !.bp = bp, !.path = "fixed",
                                 !.reads = {<<i1, j1>>},
                                 !.unfilled = IF Filled(<<i1, j1>>)
                                                THEN {} ELSE {<<i1, j1>>}]
       /\ IF e = Unbound
            THEN pc' = "error" /\ UNCHANGED <<min_struct, min_ene>>
            ELSE pc' = pc /\ UpdateMin(bp, e)
  /\ UNCHANGED <<seq, l_fix, bps, non_branches, e, root, result>>

\* _cache returns e_cache, min_struct, min_ene.
FillReturn ==
  /\ pc = "fill"
  /\ todo = {}
  /\ pc' = "exterior"
  /\ UNCHANGED <<seq, l_fix, bps, todo, e_cache, non_branches, min_struct,
                 min_ene, e, root, result, last>>

(***************************************************************************)
(* gmfold, lines 76-92: the exterior open multi-branch step.               *)
(***************************************************************************)
\* The loop over combos in the order ord; pen[combo] is what the energy
\* model adds to the branches' energies.  st is <<e_cache, min_struct>>.
RECURSIVE ExtLoop(_, _, _)
ExtLoop(ord, pen, st) ==
  IF ord = <<>> THEN st
  ELSE
    LET combo == Head(ord)
        e3_test == open_ending_branch(st[1], combo, pen[combo])
        next == IF StructBool(e3_test) /\ LtE(e3_test.e, CellIn(st[1], st[2]).e)
                  THEN <<Put(st[1], <<0, n - 1>>, e3_test), <<0, n - 1>>>>
                  ELSE st
    IN  ExtLoop(Tail(ord), pen, next)

\* Exclude branches with positive energy value.
ExtBranches == { bp \in bps : LtE(Cell(bp).e, 0) }

ExtCombos == all_combinations(ExtBranches, 2, n_branches)

ExtGuard ==
  /\ LtE(min_ene, Cell(<<0, n - 1>>).e)
       \/ StructEq(Cell(<<0, n - 1>>), STRUCT_DEFAULT)
  /\ l_fix = 0

Exterior ==
  /\ pc = "exterior"
  /\ IF n = 0
       THEN \* e_cache[0] of an empty table
            /\ pc' = "error"
            /\ last' = [NoStep EXCEPT !.path = "exterior"]
            /\ UNCHANGED <<e_cache, min_struct>>
       ELSE \E pen \in [ExtCombos -> OpenE], ord \in SeqsOf(ExtCombos) :
              LET st == IF ExtGuard
                          THEN ExtLoop(ord, pen, <<e_cache, min_struct>>)
                          ELSE <<e_cache, min_struct>>
              IN  /\ e_cache' = st[1]
                  /\ min_struct' = st[2]
                  /\ pc' = "traceback"
                  /\ last' = [NoStep EXCEPT
                       !.path = "exterior",
                       !.best = Cell(min_struct).e,
                       !.open = [c \in ExtCombos |->
                                   open_ending_branch(e_cache, c, pen[c]).e]]
  /\ UNCHANGED <<seq, l_fix, bps, todo, non_branches, min_ene, e, root,
                 result>>

(***************************************************************************)
(* gm_traceback and _trackback_energy.                                     *)
(***************************************************************************)
\* _trackback_energy without the subtraction of the next feature's energy.
trackback_energy_absolute(structs) ==
  [index \in 1 .. Len(structs) |->
     Struct(structs[index].e, structs[index].desc, structs[index].ij)]

_trackback_energy(structs) ==
  [index \in 1 .. Len(structs) |->
     LET e_next == IF index = Len(structs) THEN 0 ELSE structs[index + 1].e
     IN  Struct(SubE(structs[index].e, e_next), structs[index].desc,
                structs[index].ij)]

\* Lines 363-368: each stem cell's child is set to the next inward pair;
\* s.ij[0] = ... fails on a cell that has no child.
RECURSIVE StemRewrite(_, _)
StemRewrite(cache, k) ==
  IF k >= l_fix THEN [ok |-> TRUE, cache |-> cache]
  ELSE
    LET p == <<k - 1, n - k>>
        s == CellIn(cache, p)
    IN  IF s.ij = <<>>
          THEN [ok |-> FALSE, cache |-> cache]
          ELSE StemRewrite(
                 Put(cache, p,
                     Struct(s.e, s.desc, [s.ij EXCEPT ![1] = <<k, n - 1 - k>>])),
                 k + 1)

RECURSIVE Concat(_)
Concat(ss) == IF ss = <<>> THEN <<>> ELSE Head(ss) \o Concat(Tail(ss))

\* Lines 374-403: the while loop from (i, j) with the structs collected so
\* far, and the recursion into the branches of a multi-branch.
\* The cached Struct appended as it is, its children in place of (i, j).
FeatureOfCell(s, i, j) == s

\* Line 376: the feature appended for the pair (i, j).
Feature(s, i, j) == with_ij(s, <<(<<i, j>>)>>)

RECURSIVE Walk(_, _, _, _)
Walk(i, j, cache, structs) ==
  LET s == CellIn(cache, <<i, j>>)
      st == Append(structs, Feature(s, i, j))
  IN  IF s.ij = <<>> THEN _trackback_energy(st)
      ELSE IF Len(s.ij) = 1
        THEN Walk(s.ij[1][1], s.ij[1][2], cache, st)
      ELSE
        LET marg == _trackback_energy(st)
            tb == [k \in 1 .. Len(s.ij) |->
                     Walk(s.ij[k][1], s.ij[k][2], cache, <<>>)]
            kept(k) == tb[k] # <<>> /\ tb[k][1].ij # <<>>
            e_sum == SumE([k \in 1 .. Len(s.ij) |->
                             IF kept(k) THEN CellIn(cache, s.ij[k]).e ELSE 0])
            branches == Concat([k \in 1 .. Len(s.ij) |->
                                  IF kept(k) THEN tb[k] ELSE <<>>])
            lst == marg[Len(marg)]
        IN  [marg EXCEPT ![Len(marg)] =
               Struct(SubE(lst.e, e_sum), lst.desc, lst.ij)] \o branches

gm_traceback(i, j, cache) == Walk(i, j, cache, <<>>)

\* gm_traceback without the reset of (i, j) to the whole-sequence pair.
TraceStartAtBest == min_struct

\* Lines 363-372: with a fixed stem the walk starts at the whole-sequence
\* pair, otherwise at the pair passed in.
TraceStart == IF l_fix >= 1 THEN <<0, n - 1>> ELSE min_struct

\* gmfold line 94 and gm_traceback: min_struct[0] of None fails.
Traceback ==
  /\ pc = "traceback"
  /\ LET pre == IF l_fix > 1 THEN StemRewrite(e_cache, 1)
                ELSE [ok |-> TRUE, cache |-> e_cache]
         start == TraceStart
     IN  IF min_struct = None \/ ~pre.ok
           THEN /\ pc' = "error"
                /\ UNCHANGED <<e_cache, root, result>>
           ELSE /\ pc' = "done"
                /\ e_cache' = pre.cache
                /\ root' = start
                /\ result' = gm_traceback(start[1], start[2], pre.cache)
  /\ last' = [NoStep EXCEPT !.path = "traceback"]
  /\ UNCHANGED <<seq, l_fix, bps, todo, non_branches, min_struct, min_ene, e>>

Next ==
  \/ FillIsolated
  \/ FillSmallHairpin
  \/ FillGeneral
  \/ FillFixedSkip
  \/ FillFixedWrite
  \/ FillReturn
  \/ Exterior
  \/ Traceback

Spec == Init /\ [][Next]_vars

(***************************************************************************)
(* Properties.                                                             *)
(***************************************************************************)
Energies(structs) == [k \in 1 .. Len(structs) |-> structs[k].e]

Whole == <<0, n - 1>>

IsOpen(s) == s.desc = "OPEN_ENDING_MULTI_BRANCH"

\* C1: the marginal energies that gm_traceback returns add up to the
\* cached energy of the cell the traceback started from.
C1_MarginalSum ==
  pc = "done" => SumE(Energies(result)) = Cell(root).e

\* C1 witness: a traceback from the exterior open multi-branch root whose
\* branches were traced recursively.
C1_Witness ==
  /\ pc = "done"
  /\ IsOpen(Cell(root))
  /\ Len(result) >= 3

\* A traceback from a closing pair with a multi-branch inside it.
MultiBranchTraced ==
  /\ pc = "done"
  /\ Cell(root).desc = "MULTI_BRANCH"
  /\ Len(result) >= 3

\* A traceback down a chain of links to a hairpin.
ChainTraced ==
  /\ pc = "done"
  /\ Len(result) >= 2
  /\ Len(Cell(root).ij) = 1
  /\ result[Len(result)].desc = "HAIRPIN"

StemComplementary ==
  \A k \in 0 .. l_fix - 1 : k < n - 1 - k /\ Comp(k, n - 1 - k)

\* C2: with a fixed stem of k complementary pairs, the first k features
\* of the output are the pairs (0,n-1), (1,n-2), ..., (k-1,n-k), outer to
\* inner, and each stem cell is linked to the next inward pair.
C2_FixedStem ==
  (pc = "done" /\ l_fix > 0 /\ StemComplementary) =>
    /\ Len(result) >= l_fix
    /\ \A k \in 0 .. l_fix - 1 : result[k + 1].ij = <<(<<k, n - 1 - k>>)>>
    /\ \A k \in 0 .. l_fix - 2 :
         Cell(<<k, n - 1 - k>>).ij = <<(<<k + 1, n - 2 - k>>)>>

\* C2 witness: a fold with a fixed stem of two pairs returned although a
\* candidate outside the stem has a lower energy than the stem's pairs.
C2_Witness ==
  /\ pc = "done"
  /\ l_fix >= 2
  /\ StemComplementary
  /\ \E p \in bps : p[1] + p[2] # n - 1 /\ LtE(Cell(p).e, Cell(Whole).e)

\* The features that stand for one base pair: all but a leading exterior
\* open multi-branch placeholder.
PairFeatures ==
  IF result # <<>> /\ IsOpen(result[1]) THEN Tail(result) ELSE result

\* C3: in the output every feature names one pair and no position is an
\* endpoint of two features.
C3_NoDoublePairing ==
  pc = "done" =>
    /\ \A a \in 1 .. Len(PairFeatures) : Len(PairFeatures[a].ij) = 1
    /\ \A a, b \in 1 .. Len(PairFeatures) :
         a # b =>
           {PairFeatures[a].ij[1][1], PairFeatures[a].ij[1][2]}
             \cap {PairFeatures[b].ij[1][1], PairFeatures[b].ij[1][2]} = {}

\* C3 witness: an output with the exterior placeholder and the pairs of at
\* least two branches behind it.
C3_Witness ==
  /\ pc = "done"
  /\ result # <<>>
  /\ IsOpen(result[1])
  /\ Len(PairFeatures) >= 2

Children(p) == { Cell(p).ij[k] : k \in 1 .. Len(Cell(p).ij) }

StrictlyNested(p) == \A q \in Children(p) : p[1] < q[1] /\ q[1] < q[2] /\ q[2] < p[2]

Contained(p) ==
  \A q \in Children(p) : p[1] <= q[1] /\ q[1] < q[2] /\ q[2] <= p[2] /\ q # p

SiblingsDisjoint(p) ==
  \A q, r \in Children(p) : q # r => NonOverlap(q, r)

\* C4 as stated: every cell and each of its children satisfy
\* i < i' < j' < j, the exterior resolver's cell included.
C4_StrictNestingEverywhere ==
  \A p \in DOMAIN e_cache : StrictlyNested(p) /\ SiblingsDisjoint(p)

\* C4 amended: every cell written by the fill has its children strictly
\* inside it; the children of the whole-sequence cell written by the
\* exterior resolver lie within 0..n-1 (they may start at 0 or end at n-1),
\* are not the whole-sequence pair itself, and in both cases the children
\* of one cell are pairwise disjoint.
C4_Nesting ==
  \A p \in DOMAIN e_cache :
    /\ IF IsOpen(Cell(p)) THEN p = Whole /\ Contained(p) ELSE StrictlyNested(p)
    /\ SiblingsDisjoint(p)

\* C4 witness: the exterior resolver wrote the whole-sequence cell with a
\* branch that starts at position 0, and the cache was traced back.
C4_Witness ==
  /\ pc = "done"
  /\ IsOpen(Cell(Whole))
  /\ \E q \in Children(Whole) : q[1] = 0

\* C5: a fold with no candidate pair returns an empty list and does not
\* end in an error.
C5_DegenerateReturnsEmpty ==
  bps = {} => (pc # "error" /\ (pc = "done" => result = <<>>))

\* The energies of the candidates _e chooses among for the pair of the
\* last step: the hairpin, every link to a nested candidate, every
\* multi-branch over an enumerated combination.
RefLinks(bp) ==
  { AddE(last.lp[q], Cell(q).e) : q \in Linked(bp[1], bp[2]) } \ {-Inf}

RefMulti(bp) ==
  { gm_multi_branch(e_cache, c, last.pen).e : c \in Combos(bp[1], bp[2]) }
    \ {Inf, -Inf, NaN}

RefCands(bp) == {last.hp} \cup RefLinks(bp) \cup RefMulti(bp)

C7_ExteriorTakesBest ==
  (last.path = "exterior" /\ pc = "traceback") =>
    IF l_fix = 0
      THEN (\E c \in DOMAIN last.open : LtE(last.open[c], last.best)) =>
             /\ min_struct = Whole
             /\ IsOpen(Cell(Whole))
             /\ \A c \in DOMAIN last.open : Cell(Whole).e <= last.open[c]
      ELSE ~IsOpen(Cell(Whole))

\* C8: after _e has resolved a pair, the pair is in non_branches whenever
\* its cell is a hairpin, a multi-branch or has positive energy; so every
\* resolved pair left in a branch pool is a link of non-positive energy.
C8_NonBranches ==
  /\ last.path \in {"isolated", "small", "general"} =>
       LET s == Cell(last.bp) IN
       (Len(s.ij) # 1 \/ s.e > 0) => last.bp \in non_branches
  /\ pc = "fill" =>
       \A p \in bps : \A q \in S(p) \ non_branches :
         Filled(q) => (Len(Cell(q).ij) = 1 /\ Cell(q).e <= 0)

\* C9: pairs are processed in ascending span, every cell read while a
\* pair is resolved or force-written belongs to a pair of smaller span and
\* is already written, and after the fill every pair of D has a filled
\* cell.
C9_FillOrder ==
  /\ \A p \in bps \ todo : \A q \in todo : Span(p) <= Span(q)
  /\ last.unfilled = {}
  /\ \A q \in last.reads : Span(q) < Span(last.bp)
  /\ pc \in {"exterior", "traceback", "done"} => \A p \in bps : Filled(p)

Processed == { p \in bps : Filled(p) }

\* C10: when _cache returns, min_ene is the lowest energy among the cells
\* of the processed pairs and min_struct is a pair with that energy.
C10_GlobalBest ==
  (pc = "exterior" /\ Processed # {}) =>
    /\ min_struct \in Processed
    /\ Cell(min_struct).e = min_ene
    /\ \A p \in Processed : min_ene <= Cell(p).e

====
